---- MODULE Spec2Model ----
(***************************************************************************)
(* A model of the befuddle Befunge interpreter: the field (src/field.rs)   *)
(* and the execution engine BefungeExecution (src/lib.rs).  The state is   *)
(* the engine's fields; the one operation is step_and_render, which reads  *)
(* the cell under the pointer, dispatches on it and moves the pointer.     *)
(***************************************************************************)
EXTENDS Integers, Sequences, FiniteSets, TLC

\* ------------------------------------------------------------------------
\* BefungeCommand: the opcode table (lib.rs, impl BefungeCommand)
\* ------------------------------------------------------------------------
NO_OP == 32
NEGATE == 33
TOGGLE_STRING_MODE == 34
BRIDGE == 35
DISCARD == 36
MODULO == 37
READ_INT == 38
MULTIPLY == 42
ADD == 43
WRITE_CHAR == 44
SUBTRACT == 45
WRITE_INT == 46
DIVIDE == 47
DUPLICATE == 58
LEFT == 60
RIGHT == 62
RANDOM == 63
STOP == 64
SWAP == 92
UP == 94
IF_LEFT_RIGHT == 95
COMPARE == 96
READ_CELL == 103
WRITE_CELL == 112
DOWN == 118
IF_UP_DOWN == 124
READ_CHAR == 126

\* b'0' and b'9', the ends of the digit arm's range pattern
DIGIT_0 == 48
DIGIT_9 == 57

\* The line separator of str::lines()
NEWLINE == 10

\* i32::MAX; i32::MIN is written I32_MIN below
I32_MAX == 2147483647
I32_MIN == (-I32_MAX) - 1

\* ------------------------------------------------------------------------
\* Bounds of the exploration
\* ------------------------------------------------------------------------
\* Number of step calls made on a running engine
MaxSteps == 5

\* Values the renderer's read_number can return (any i32 in the program):
\* a negative one, zero, a small one, one above 255 and the largest
InputNumbers == {-1, 0, 4, 368, I32_MAX}

\* Values the renderer's read_character can return (a byte of the input line)
InputCharacters == {48, 97}

\* Characters of program sources: every opcode, some digits, a letter that is
\* no opcode, and a character whose UTF-8 encoding is longer than one byte
Opcodes ==
    {NO_OP, NEGATE, TOGGLE_STRING_MODE, BRIDGE, DISCARD, MODULO, READ_INT,
     MULTIPLY, ADD, WRITE_CHAR, SUBTRACT, WRITE_INT, DIVIDE, DUPLICATE, LEFT,
     RIGHT, RANDOM, STOP, SWAP, UP, IF_LEFT_RIGHT, COMPARE, READ_CELL,
     WRITE_CELL, DOWN, IF_UP_DOWN, READ_CHAR}

SourceChars == Opcodes \cup {DIGIT_0, 49, DIGIT_9, 97, 233}

\* ------------------------------------------------------------------------
\* FungeField (field.rs)
\* ------------------------------------------------------------------------
\* cells is the flat Vec, cell (x,y) at index x + y*width (1-based here)
\* FungeField::new filling the grid with zeros
FieldNewZeroed(width, height) ==
    [width |-> width, height |-> height,
     cells |-> [i \in 1..(width * height) |-> 0]]

FieldNew(width, height) ==
    [width |-> width, height |-> height,
     cells |-> [i \in 1..(width * height) |-> NO_OP]]

FieldGet(f, x, y) ==
    IF x < f.width /\ y < f.height
    THEN [some |-> TRUE, value |-> f.cells[x + y * f.width + 1]]
    ELSE [some |-> FALSE, value |-> 0]

\* Field::set writing the first cell whatever the coordinates
FieldSetAtOrigin(f, x, y, value) ==
    IF x < f.width /\ y < f.height
    THEN [f EXCEPT !.cells[1] = value]
    ELSE f

FieldSet(f, x, y, value) ==
    IF x < f.width /\ y < f.height
    THEN [f EXCEPT !.cells[x + y * f.width + 1] = value]
    ELSE f

\* str::lines(): the text split at each newline; a final newline ends the
\* last line and starts no further one
RECURSIVE Lines(_)
Lines(input) ==
    IF input = << >> THEN << >>
    ELSE LET nl == {i \in 1..Len(input) : input[i] = NEWLINE} IN
         IF nl = {} THEN << input >>
         ELSE LET k == CHOOSE i \in nl : \A j \in nl : i <= j IN
              << SubSeq(input, 1, k - 1) >>
                  \o Lines(SubSeq(input, k + 1, Len(input)))

\* char::len_utf8
LenUtf8(c) ==
    IF c < 128 THEN 1 ELSE IF c < 2048 THEN 2 ELSE IF c < 65536 THEN 3 ELSE 4

\* The inner loop of load_str stopping only at the width
CopyLenToWidth(line, width) ==
    IF Len(line) < width THEN Len(line) ELSE width

\* The inner loop of load_str: the number of characters of a line copied
\* before the loop breaks
CopyLen(line, width) ==
    LET stop == {x \in 0..Len(line) :
                    x = Len(line) \/ x >= width \/ LenUtf8(line[x + 1]) > 1}
    IN  CHOOSE x \in stop : \A z \in stop : x <= z

LoadStr(f, input) ==
    LET lines == Lines(input)
        copied(x, y) ==
            /\ y + 1 <= Len(lines)
            /\ x < CopyLen(lines[y + 1], f.width)
    IN  [f EXCEPT !.cells =
            [i \in 1..(f.width * f.height) |->
                LET x == (i - 1) % f.width
                    y == (i - 1) \div f.width
                IN  IF copied(x, y) THEN lines[y + 1][x + 1] ELSE f.cells[i]]]

FromStr(input, width, height) == LoadStr(FieldNew(width, height), input)

\* ------------------------------------------------------------------------
\* i32 arithmetic.  Every value of the model is an i32; the operators below
\* compute within that range and report a result that leaves it.
\* ------------------------------------------------------------------------
Abs(a) == IF a < 0 THEN -a ELSE a

AddOverflows(a, b) ==
    \/ b > 0 /\ a > I32_MAX - b
    \/ b < 0 /\ a < I32_MIN - b

\* i32::wrapping_add: the sum modulo 2^32
WrappingAdd(a, b) ==
    IF b > 0 /\ a > I32_MAX - b THEN (a - I32_MAX - 1) + (b - I32_MAX - 1)
    ELSE IF b < 0 /\ a < I32_MIN - b THEN (a + I32_MAX + 1) + (b + I32_MAX + 1)
    ELSE a + b

SubOverflows(a, b) ==
    \/ b < 0 /\ a > I32_MAX + b
    \/ b > 0 /\ a < I32_MIN + b

\* i32::wrapping_sub
WrappingSub(a, b) ==
    IF b < 0 /\ a > I32_MAX + b THEN (a - I32_MAX - 1) - (b + I32_MAX + 1)
    ELSE IF b > 0 /\ a < I32_MIN + b THEN (a + I32_MAX + 1) - (b - I32_MAX - 1)
    ELSE a - b

MulOverflows(a, b) ==
    IF a = 0 \/ b = 0 \/ a = 1 \/ b = 1 THEN FALSE
    ELSE IF a = I32_MIN \/ b = I32_MIN THEN TRUE
    ELSE LET m == Abs(a)
             n == Abs(b)
             q == I32_MAX \div n
         IN  IF (a < 0) = (b < 0)
             THEN m > q
             ELSE ~(m <= q \/ (m = q + 1 /\ I32_MAX % n = n - 1))

\* Byte i of the two's complement representation of an i32
Limb(v, i) == (v \div (256 ^ i)) % 256

\* m * 2^s modulo 2^32, read as an i32 (m >= 0, s one of 0, 8, 16, 24)
ShiftedI32(m, s) ==
    IF s = 0 THEN m
    ELSE LET half == 2 ^ (31 - s)
             low == m % (2 * half)
         IN  IF low >= half THEN (low - 2 * half) * (2 ^ s) ELSE low * (2 ^ s)

\* i32::wrapping_mul: the product modulo 2^32, summed from the byte products
\* that reach the low 32 bits
WrappingMul(a, b) ==
    LET t(i, j) == ShiftedI32(Limb(a, i) * Limb(b, j), 8 * (i + j))
        add(x, y) == WrappingAdd(x, y)
    IN  add(t(0, 0), add(t(0, 1), add(t(1, 0), add(t(0, 2), add(t(1, 1),
        add(t(2, 0), add(t(0, 3), add(t(1, 2), add(t(2, 1), t(3, 0))))))))))

\* i32 `/` with a divisor other than zero: the quotient rounded toward zero
TruncDiv(a, b) ==
    IF b = I32_MIN THEN (IF a = I32_MIN THEN 1 ELSE 0)
    ELSE LET n == Abs(b)
             q == a \div n
             t == IF a < 0 /\ a % n # 0 THEN q + 1 ELSE q
         IN  IF b < 0 THEN -t ELSE t

\* i32 `%` with a divisor other than zero: the remainder has the sign of a
TruncRem(a, b) ==
    IF b = I32_MIN THEN (IF a = I32_MIN THEN 0 ELSE a)
    ELSE LET n == Abs(b)
             r == a % n
         IN  IF a < 0 /\ r # 0 THEN r - n ELSE r

\* `curr as u8`: the low eight bits
AsU8(v) == v % 256

\* i32 to usize by try_into(): fails for a negative value
FitsUsize(v) == v >= 0

\* ------------------------------------------------------------------------
\* BefungeExecution (lib.rs).  An engine value is a record of the struct's
\* fields, together with what the step has done to its surroundings:
\*   fault   "none", or the panic that aborted the step
\*   output  the values handed to write_character / write_number, in order
\*   input   the values obtained from read_number / read_character, in order
\* ------------------------------------------------------------------------
Delta == {"Right", "Left", "Down", "Up"}

New(field) ==
    [pc_x |-> 0, pc_y |-> 0, pc_delta |-> "Right", string_mode |-> FALSE,
     field |-> field, stack |-> << >>, active |-> TRUE,
     fault |-> "none", output |-> << >>, input |-> << >>]

\* A pop that yields one, not zero, on an empty stack
PopValueOne(stack) == IF stack = << >> THEN 1 ELSE stack[Len(stack)]

\* Vec::pop().unwrap_or_default(): the popped value, zero when empty
PopValue(stack) == IF stack = << >> THEN 0 ELSE stack[Len(stack)]

\* The stack left by Vec::pop()
PopRest(stack) ==
    IF stack = << >> THEN << >> ELSE SubSeq(stack, 1, Len(stack) - 1)

\* A push that pushes the value twice
PushTwice(e, value) == [e EXCEPT !.stack = Append(Append(@, value), value)]

Push(e, value) == [e EXCEPT !.stack = Append(@, value)]

\* A panic unwinds out of the step: what was popped stays popped
Panic(e, why) == [e EXCEPT !.fault = why]

\* move_pc with the Right arm's edge test left out
move_pc_unwrapped(e) ==
    CASE e.pc_delta = "Right" -> [e EXCEPT !.pc_x = e.pc_x + 1]
      [] e.pc_delta = "Left" ->
            [e EXCEPT !.pc_x = IF e.pc_x > 0
                               THEN e.pc_x - 1 ELSE e.field.width - 1]
      [] e.pc_delta = "Down" ->
            [e EXCEPT !.pc_y = IF e.pc_y < e.field.height - 1
                               THEN e.pc_y + 1 ELSE 0]
      [] e.pc_delta = "Up" ->
            [e EXCEPT !.pc_y = IF e.pc_y > 0
                               THEN e.pc_y - 1 ELSE e.field.height - 1]

\* move_pc with Up and Left stopping at the edge instead of wrapping
move_pc_clamped(e) ==
    CASE e.pc_delta = "Right" ->
            [e EXCEPT !.pc_x = IF e.pc_x < e.field.width - 1
                               THEN e.pc_x + 1 ELSE 0]
      [] e.pc_delta = "Left" ->
            [e EXCEPT !.pc_x = IF e.pc_x > 0 THEN e.pc_x - 1 ELSE 0]
      [] e.pc_delta = "Down" ->
            [e EXCEPT !.pc_y = IF e.pc_y < e.field.height - 1
                               THEN e.pc_y + 1 ELSE 0]
      [] e.pc_delta = "Up" ->
            [e EXCEPT !.pc_y = IF e.pc_y > 0 THEN e.pc_y - 1 ELSE 0]

move_pc(e) ==
    CASE e.pc_delta = "Right" ->
            [e EXCEPT !.pc_x = IF e.pc_x < e.field.width - 1
                               THEN e.pc_x + 1 ELSE 0]
      [] e.pc_delta = "Left" ->
            [e EXCEPT !.pc_x = IF e.pc_x > 0
                               THEN e.pc_x - 1 ELSE e.field.width - 1]
      [] e.pc_delta = "Down" ->
            [e EXCEPT !.pc_y = IF e.pc_y < e.field.height - 1
                               THEN e.pc_y + 1 ELSE 0]
      [] e.pc_delta = "Up" ->
            [e EXCEPT !.pc_y = IF e.pc_y > 0
                               THEN e.pc_y - 1 ELSE e.field.height - 1]

\* The string-mode branch pushing a digit's numeric value
StringModeArmNumeric(e, curr) ==
    IF curr = TOGGLE_STRING_MODE
    THEN [e EXCEPT !.string_mode = FALSE]
    ELSE Push(e, IF curr \in DIGIT_0..DIGIT_9 THEN curr - DIGIT_0 ELSE curr)

\* The string-mode branch halting on `@`
StringModeArmHalting(e, curr) ==
    IF curr = TOGGLE_STRING_MODE
    THEN [e EXCEPT !.string_mode = FALSE]
    ELSE IF curr = STOP THEN [e EXCEPT !.active = FALSE]
    ELSE Push(e, curr)

\* The string-mode branch of the step
StringModeArm(e, curr) ==
    IF curr = TOGGLE_STRING_MODE
    THEN [e EXCEPT !.string_mode = FALSE]
    ELSE Push(e, curr)

NegateArm(e) ==
    LET top == PopValue(e.stack)
        rest == PopRest(e.stack)
    IN  [e EXCEPT !.stack = Append(rest, IF top > 0 THEN 0 ELSE 1)]

DiscardArm(e) == [e EXCEPT !.stack = PopRest(e.stack)]

\* The MODULO arm pushing zero for a zero divisor
ModuloArmDefaulted(e) ==
    LET top == PopValue(e.stack)
        second == PopValue(PopRest(e.stack))
        popped == [e EXCEPT !.stack = PopRest(PopRest(e.stack))]
    IN  IF second = 0 THEN Push(popped, 0)
        ELSE IF top = I32_MIN /\ second = -1
        THEN Panic(popped, "remainder overflow")
        ELSE Push(popped, TruncRem(top, second))

\* The arms that pop top, then second, and push one value.  `checks` is the
\* build's overflow-checks setting: with it an overflowing + - * panics,
\* without it the result wraps.  `/` and `%` panic on a zero divisor and on
\* i32::MIN / -1 in every build.
ModuloArm(e) ==
    LET top == PopValue(e.stack)
        second == PopValue(PopRest(e.stack))
        popped == [e EXCEPT !.stack = PopRest(PopRest(e.stack))]
    IN  IF second = 0 THEN Panic(popped, "remainder by zero")
        ELSE IF top = I32_MIN /\ second = -1
        THEN Panic(popped, "remainder overflow")
        ELSE Push(popped, TruncRem(top, second))

MultiplyArm(e, checks) ==
    LET top == PopValue(e.stack)
        second == PopValue(PopRest(e.stack))
        popped == [e EXCEPT !.stack = PopRest(PopRest(e.stack))]
    IN  IF MulOverflows(top, second) /\ checks
        THEN Panic(popped, "multiply overflow")
        ELSE Push(popped, WrappingMul(top, second))

AddArm(e, checks) ==
    LET top == PopValue(e.stack)
        second == PopValue(PopRest(e.stack))
        popped == [e EXCEPT !.stack = PopRest(PopRest(e.stack))]
    IN  IF AddOverflows(top, second) /\ checks
        THEN Panic(popped, "add overflow")
        ELSE Push(popped, WrappingAdd(top, second))

\* The SUBTRACT arm computing second - top
SubtractArmSwapped(e, checks) ==
    LET top == PopValue(e.stack)
        second == PopValue(PopRest(e.stack))
        popped == [e EXCEPT !.stack = PopRest(PopRest(e.stack))]
    IN  IF SubOverflows(second, top) /\ checks
        THEN Panic(popped, "subtract overflow")
        ELSE Push(popped, WrappingSub(second, top))

SubtractArm(e, checks) ==
    LET top == PopValue(e.stack)
        second == PopValue(PopRest(e.stack))
        popped == [e EXCEPT !.stack = PopRest(PopRest(e.stack))]
    IN  IF SubOverflows(top, second) /\ checks
        THEN Panic(popped, "subtract overflow")
        ELSE Push(popped, WrappingSub(top, second))

\* The DIVIDE arm computing second / top
DivideArmSwapped(e) ==
    LET top == PopValue(e.stack)
        second == PopValue(PopRest(e.stack))
        popped == [e EXCEPT !.stack = PopRest(PopRest(e.stack))]
    IN  IF top = 0 THEN Panic(popped, "divide by zero")
        ELSE IF second = I32_MIN /\ top = -1
        THEN Panic(popped, "divide overflow")
        ELSE Push(popped, TruncDiv(second, top))

DivideArm(e) ==
    LET top == PopValue(e.stack)
        second == PopValue(PopRest(e.stack))
        popped == [e EXCEPT !.stack = PopRest(PopRest(e.stack))]
    IN  IF second = 0 THEN Panic(popped, "divide by zero")
        ELSE IF top = I32_MIN /\ second = -1
        THEN Panic(popped, "divide overflow")
        ELSE Push(popped, TruncDiv(top, second))

CompareArm(e) ==
    LET top == PopValue(e.stack)
        second == PopValue(PopRest(e.stack))
        popped == [e EXCEPT !.stack = PopRest(PopRest(e.stack))]
    IN  Push(popped, IF top > second THEN 1 ELSE 0)

\* The READ_INT arm pushing a number that is not part of the input fed
ReadIntArmUnfed(e, num) == [e EXCEPT !.stack = Append(@, num)]

ReadIntArm(e, num) ==
    [e EXCEPT !.stack = Append(@, num),
              !.input = Append(@, << "number", num >>)]

ReadCharArm(e, chr) ==
    [e EXCEPT !.stack = Append(@, chr),
              !.input = Append(@, << "character", chr >>)]

WriteCharArm(e) ==
    [e EXCEPT !.stack = PopRest(e.stack),
              !.output = Append(@, << "character", PopValue(e.stack) >>)]

\* The WRITE_INT arm putting its number in front of the earlier output
WriteIntArmInFront(e) ==
    [e EXCEPT !.stack = PopRest(e.stack),
              !.output = << << "number", PopValue(e.stack) >> >> \o @]

WriteIntArm(e) ==
    [e EXCEPT !.stack = PopRest(e.stack),
              !.output = Append(@, << "number", PopValue(e.stack) >>)]

DuplicateArm(e) ==
    LET top == PopValue(e.stack)
    IN  [e EXCEPT !.stack = Append(Append(PopRest(e.stack), top), top)]

\* The SWAP arm pushing the two values back in their old order
SwapArmInOrder(e) ==
    LET top == PopValue(e.stack)
        second == PopValue(PopRest(e.stack))
    IN  [e EXCEPT !.stack =
            Append(Append(PopRest(PopRest(e.stack)), second), top)]

SwapArm(e) ==
    LET top == PopValue(e.stack)
        second == PopValue(PopRest(e.stack))
    IN  [e EXCEPT !.stack =
            Append(Append(PopRest(PopRest(e.stack)), top), second)]

IfLeftRightArm(e) ==
    [e EXCEPT !.stack = PopRest(e.stack),
              !.pc_delta = IF PopValue(e.stack) > 0 THEN "Left" ELSE "Right"]

\* The IF_UP_DOWN arm going Up on every non-zero value
IfUpDownArmNonZero(e) ==
    [e EXCEPT !.stack = PopRest(e.stack),
              !.pc_delta = IF PopValue(e.stack) # 0 THEN "Up" ELSE "Down"]

IfUpDownArm(e) ==
    [e EXCEPT !.stack = PopRest(e.stack),
              !.pc_delta = IF PopValue(e.stack) > 0 THEN "Up" ELSE "Down"]

\* top is converted to usize as soon as it is popped, second after its pop
ReadCellArm(e) ==
    LET top == PopValue(e.stack)
        second == PopValue(PopRest(e.stack))
    IN  IF ~FitsUsize(top)
        THEN Panic([e EXCEPT !.stack = PopRest(e.stack)], "negative usize")
        ELSE LET popped == [e EXCEPT !.stack = PopRest(PopRest(e.stack))]
                 got == FieldGet(e.field, second, top)
             IN  IF ~FitsUsize(second) THEN Panic(popped, "negative usize")
                 ELSE IF got.some THEN Push(popped, got.value)
                 ELSE popped

WriteCellArm(e) ==
    LET top == PopValue(e.stack)
        second == PopValue(PopRest(e.stack))
        value == PopValue(PopRest(PopRest(e.stack)))
    IN  IF ~FitsUsize(top)
        THEN Panic([e EXCEPT !.stack = PopRest(e.stack)], "negative usize")
        ELSE IF ~FitsUsize(second)
        THEN Panic([e EXCEPT !.stack = PopRest(PopRest(e.stack))],
                   "negative usize")
        ELSE [e EXCEPT !.stack = PopRest(PopRest(PopRest(e.stack))),
                       !.field = FieldSet(e.field, second, top, value)]

\* The STOP arm halting and then moving the pointer on
StopArmMoving(e) == move_pc([e EXCEPT !.active = FALSE])

\* The STOP arm leaving the engine running
StopArmRunning(e) == e

StopArm(e) == [e EXCEPT !.active = FALSE]

\* The BRIDGE arm skipping nothing
BridgeArmNoSkip(e) == e

\* `#` moves the pointer once in the arm; the step's own move follows
BridgeArm(e) == move_pc(e)

\* The digit arm pushing the character code
DigitArmRaw(e, curr) == Push(e, curr)

\* `b'0'..=b'9'`: the cell less the code of `0`
DigitArm(e, curr) == Push(e, curr - DIGIT_0)

\* `match curr as u8`: the arm is selected by the low byte of the cell
Dispatch(e, curr, num, chr, checks) ==
    LET op == AsU8(curr) IN
    CASE op = NO_OP -> e
      [] op = NEGATE -> NegateArm(e)
      [] op = TOGGLE_STRING_MODE -> [e EXCEPT !.string_mode = TRUE]
      [] op = BRIDGE -> BridgeArm(e)
      [] op = DISCARD -> DiscardArm(e)
      [] op = MODULO -> ModuloArm(e)
      [] op = READ_INT -> ReadIntArm(e, num)
      [] op = MULTIPLY -> MultiplyArm(e, checks)
      [] op = ADD -> AddArm(e, checks)
      [] op = WRITE_CHAR -> WriteCharArm(e)
      [] op = SUBTRACT -> SubtractArm(e, checks)
      [] op = WRITE_INT -> WriteIntArm(e)
      [] op = DIVIDE -> DivideArm(e)
      [] op = DUPLICATE -> DuplicateArm(e)
      [] op = LEFT -> [e EXCEPT !.pc_delta = "Left"]
      [] op = RIGHT -> [e EXCEPT !.pc_delta = "Right"]
      [] op = RANDOM -> e
      [] op = STOP -> StopArm(e)
      [] op = SWAP -> SwapArm(e)
      [] op = UP -> [e EXCEPT !.pc_delta = "Up"]
      [] op = IF_LEFT_RIGHT -> IfLeftRightArm(e)
      [] op = COMPARE -> CompareArm(e)
      [] op = READ_CELL -> ReadCellArm(e)
      [] op = WRITE_CELL -> WriteCellArm(e)
      [] op = DOWN -> [e EXCEPT !.pc_delta = "Down"]
      [] op = IF_UP_DOWN -> IfUpDownArm(e)
      [] op = READ_CHAR -> ReadCharArm(e, chr)
      [] op \in DIGIT_0..DIGIT_9 -> DigitArm(e, curr)
      [] OTHER -> Push(e, curr)

\* step_and_render moving the pointer on after an absent read
step_and_render_absent_moves(e, num, chr, checks) ==
    IF ~e.active THEN e
    ELSE LET got == FieldGet(e.field, e.pc_x, e.pc_y) IN
         IF ~got.some THEN move_pc(e)
         ELSE LET done == IF e.string_mode
                          THEN StringModeArm(e, got.value)
                          ELSE Dispatch(e, got.value, num, chr, checks)
              IN  IF done.fault # "none" THEN done
                  ELSE IF done.active THEN move_pc(done)
                  ELSE done

\* One step: nothing happens on a halted engine or on an absent read;
\* a panic ends the step where it is raised; the pointer moves on unless
\* the step halted the engine
step_and_render(e, num, chr, checks) ==
    IF ~e.active THEN e
    ELSE LET got == FieldGet(e.field, e.pc_x, e.pc_y) IN
         IF ~got.some THEN e
         ELSE LET done == IF e.string_mode
                          THEN StringModeArm(e, got.value)
                          ELSE Dispatch(e, got.value, num, chr, checks)
              IN  IF done.fault # "none" THEN done
                  ELSE IF done.active THEN move_pc(done)
                  ELSE done

\* ------------------------------------------------------------------------
\* Programs: the (source text, width, height) triples an engine is built
\* from, as in main.rs and the tests: New(FromStr(source, width, height))
\* ------------------------------------------------------------------------
\* Every source text of at most two characters or newlines
ShortSources ==
    UNION {[1..n -> SourceChars \cup {NEWLINE}] : n \in 0..2}

ShortPrograms ==
    {<< src, w, h >> : src \in ShortSources, w \in 1..3, h \in 1..2}

\* Two or three numbers read, one cell executed on them, then `@`
OperandPrograms ==
    {<< pre \o << op, STOP >>, Len(pre) + 2, 1 >> :
        pre \in {<< READ_INT, READ_INT >>, << READ_INT, READ_INT, READ_INT >>},
        op \in SourceChars}

\* The programs of the tests in lib.rs
TestPrograms ==
    {<< << >>, 2, 1 >>,
     << << LEFT >>, 3, 1 >>,
     << << DOWN >>, 1, 2 >>,
     << << UP >>, 1, 2 >>,
     << << 48, 49, 50, 51, 52, 53, 54, 55, 56, 57 >>, 10, 1 >>,
     << << 34, 48, 49, 50, 51, 52, 53, 54, 55, 56, 57, 34, 48 >>, 13, 1 >>,
     << << READ_CELL >>, 1, 1 >>,
     << << WRITE_CELL >>, 1, 1 >>,
     << << NEGATE, NEGATE >>, 2, 1 >>,
     << << 48, 49, SWAP >>, 3, 1 >>,
     << << 49, 50, ADD >>, 3, 1 >>,
     << << 49, 50, SUBTRACT >>, 3, 1 >>,
     << << 49, 50, MULTIPLY >>, 3, 1 >>,
     << << 49, 50, DIVIDE >>, 3, 1 >>,
     << << 50, 51, MODULO >>, 3, 1 >>,
     << << 49, 50, COMPARE >>, 3, 1 >>,
     << << 50, 49, COMPARE >>, 3, 1 >>,
     << << 49, DUPLICATE >>, 2, 1 >>,
     << << 49, DISCARD >>, 2, 1 >>,
     << << 49, IF_LEFT_RIGHT >>, 2, 1 >>,
     << << 48, IF_LEFT_RIGHT >>, 2, 1 >>,
     << << 49, IF_UP_DOWN >>, 2, 2 >>,
     << << 48, IF_UP_DOWN >>, 2, 2 >>,
     << << 49, 50, WRITE_INT, WRITE_INT >>, 4, 1 >>,
     << << 34, 97, 34, WRITE_CHAR >>, 4, 1 >>}

\* Every pair of digits on a row of two cells
DigitPrograms ==
    {<< << a, b >>, 2, 1 >> : a \in DIGIT_0..DIGIT_9, b \in DIGIT_0..DIGIT_9}

Programs ==
    ShortPrograms \cup OperandPrograms \cup TestPrograms \cup DigitPrograms

\* Self-modifying programs: a value and a coordinate pair are read and
\* written with `p`, a second pair is read and fetched with `g`, and the
\* pointer wraps round to the first cell; and the one- and two-cell
\* programs that run `p` and `g` on an empty stack
WritePrograms ==
    {<< << READ_INT, READ_INT, READ_INT, WRITE_CELL,
           READ_INT, READ_INT, READ_CELL >>, 7, 1 >>,
     << << READ_INT, READ_INT, READ_INT, WRITE_CELL,
           READ_INT, READ_INT, READ_CELL >>, 7, 2 >>,
     << << WRITE_CELL >>, 1, 1 >>,
     << << WRITE_CELL, READ_CELL >>, 2, 1 >>,
     << << WRITE_CELL, READ_CELL >>, 2, 2 >>}

\* Programs for run(): those that only move the pointer, pop or halt, so
\* that an endless run keeps coming back to the same engine states; the
\* programs that meet `@` inside string mode; and straight lines of
\* arithmetic, input and output that end in `@`
RunChars ==
    {NO_OP, STOP, BRIDGE, LEFT, RIGHT, UP, DOWN, DISCARD, IF_LEFT_RIGHT,
     IF_UP_DOWN, RANDOM, NEWLINE}

LineChars ==
    {DIGIT_0, 49, READ_INT, READ_CHAR, WRITE_INT, WRITE_CHAR, ADD, DIVIDE}

RunPrograms ==
    {<< src, w, h >> : src \in UNION {[1..n -> RunChars] : n \in 0..2},
                       w \in 1..3, h \in 1..2}
    \cup {<< << TOGGLE_STRING_MODE, STOP >>, 2, 1 >>,
          << << TOGGLE_STRING_MODE, STOP, TOGGLE_STRING_MODE, DISCARD >>,
             4, 1 >>}
    \cup {<< line \o << STOP >>, Len(line) + 1, 1 >> :
             line \in UNION {[1..n -> LineChars] : n \in 1..2}}

\* Straight lines of arithmetic, input and output that end in `@`
LinePrograms ==
    {<< line \o << STOP >>, Len(line) + 1, 1 >> :
        line \in UNION {[1..n -> LineChars] : n \in 1..3}}

\* Fields without cells: FungeField::from_str accepts a zero width or a
\* zero height, and every read of such a field is absent
EmptySides == 0..2

EmptyFieldPrograms ==
    {p \in {<< >>, <<STOP>>, <<DIGIT_0, NEWLINE, STOP>>}
                \X EmptySides \X EmptySides : p[2] = 0 \/ p[3] = 0}

\* ------------------------------------------------------------------------
\* The state machine
\* ------------------------------------------------------------------------
VARIABLES
    pc_x, pc_y, pc_delta, string_mode, field, stack, active,
    fault, output, input,
    steps,      \* step calls made so far
    last,       \* the engine, and written, as the latest step call found them
    written,    \* cell index -> the value `p` last wrote there, if any
    call,       \* the call made on the field or the engine, and its progress
    twin        \* a second engine built from the same field

vars == << pc_x, pc_y, pc_delta, string_mode, field, stack, active,
           fault, output, input, steps, last, written, call, twin >>

Self ==
    [pc_x |-> pc_x, pc_y |-> pc_y, pc_delta |-> pc_delta,
     string_mode |-> string_mode, field |-> field, stack |-> stack,
     active |-> active, fault |-> fault, output |-> output, input |-> input]

Becomes(e) ==
    /\ pc_x' = e.pc_x
    /\ pc_y' = e.pc_y
    /\ pc_delta' = e.pc_delta
    /\ string_mode' = e.string_mode
    /\ field' = e.field
    /\ stack' = e.stack
    /\ active' = e.active
    /\ fault' = e.fault
    /\ output' = e.output
    /\ input' = e.input

Starts(e) ==
    /\ pc_x = e.pc_x
    /\ pc_y = e.pc_y
    /\ pc_delta = e.pc_delta
    /\ string_mode = e.string_mode
    /\ field = e.field
    /\ stack = e.stack
    /\ active = e.active
    /\ fault = e.fault
    /\ output = e.output
    /\ input = e.input
    /\ steps = 0
    /\ last = [stepped |-> FALSE, before |-> e, written |-> [i \in {} |-> 0]]
    /\ written = [i \in {} |-> 0]
    /\ twin = e

\* The caller steps the engine itself, one step() at a time
Stepping == [op |-> "step"]

Init ==
    /\ \E p \in Programs : Starts(New(FromStr(p[1], p[2], p[3])))
    /\ call = Stepping

\* Whether a step on e dispatches the cell under the pointer as an opcode,
\* and the low byte it dispatches on
Dispatches(e) ==
    /\ e.active
    /\ FieldGet(e.field, e.pc_x, e.pc_y).some
    /\ ~e.string_mode

OpAt(e) == AsU8(FieldGet(e.field, e.pc_x, e.pc_y).value)

\* What the renderer can return to this step, and the builds that differ on it
NumbersRead(e) ==
    IF Dispatches(e) /\ OpAt(e) = READ_INT THEN InputNumbers ELSE {0}

CharactersRead(e) ==
    IF Dispatches(e) /\ OpAt(e) = READ_CHAR THEN InputCharacters ELSE {0}

OverflowChecks(e) ==
    IF Dispatches(e) /\ OpAt(e) \in {MULTIPLY, ADD, SUBTRACT}
    THEN BOOLEAN ELSE {TRUE}

\* The coordinate pair (col, row) names a cell of the grid
Inside(f, col, row) ==
    0 <= col /\ col < f.width /\ 0 <= row /\ row < f.height

\* The place of cell (col, row) in the cells of f
IndexOf(f, col, row) == col + row * f.width + 1

\* The record of written cells after a step took the engine from e to done:
\* a WRITE_CELL arm that completed with coordinates inside the grid is
\* noted with the value it popped
Noted(e, done) ==
    LET row == PopValue(e.stack)
        col == PopValue(PopRest(e.stack))
        value == PopValue(PopRest(PopRest(e.stack)))
    IN  IF /\ Dispatches(e) /\ OpAt(e) = WRITE_CELL
           /\ done.fault = "none"
           /\ Inside(e.field, col, row)
        THEN [i \in DOMAIN written \cup {IndexOf(e.field, col, row)} |->
                IF i = IndexOf(e.field, col, row) THEN value ELSE written[i]]
        ELSE written

\* One call of step(): step_and_render with whatever the renderer returns.
\* A panic ends the process, so no step follows one.
Step ==
    /\ fault = "none"
    /\ steps < MaxSteps
    /\ \E num \in NumbersRead(Self), chr \in CharactersRead(Self),
          checks \in OverflowChecks(Self) :
            LET done == step_and_render(Self, num, chr, checks)
            IN  Becomes(done) /\ written' = Noted(Self, done)
    /\ steps' = steps + 1
    /\ last' = [stepped |-> TRUE, before |-> Self, written |-> written]
    /\ UNCHANGED << call, twin >>

Next == Step

Spec == Init /\ [][Next]_vars

\* The self-modifying programs, run for long enough to read back and to
\* execute what they wrote
MaxLongSteps == 8

InitSelfModifying ==
    /\ \E p \in WritePrograms : Starts(New(FromStr(p[1], p[2], p[3])))
    /\ call = Stepping

LongStep ==
    /\ fault = "none"
    /\ steps < MaxLongSteps
    /\ \E num \in NumbersRead(Self), chr \in CharactersRead(Self),
          checks \in OverflowChecks(Self) :
            LET done == step_and_render(Self, num, chr, checks)
            IN  Becomes(done) /\ written' = Noted(Self, done)
    /\ steps' = steps + 1
    /\ last' = [stepped |-> TRUE, before |-> Self, written |-> written]
    /\ UNCHANGED << call, twin >>

SpecSelfModifying == InitSelfModifying /\ [][LongStep]_vars

\* run(): `while self.active { self.step(); }`. The loop is sequential
\* code, so it always takes its next turn; a panic inside step() ends the
\* process and run() never returns. steps counts the step() calls up to
\* MaxSteps and stays there.
Running == [op |-> "run", returned |-> FALSE]

InitRun ==
    /\ \E p \in RunPrograms : Starts(New(FromStr(p[1], p[2], p[3])))
    /\ call = Running

RunStep ==
    /\ call.op = "run" /\ ~call.returned
    /\ fault = "none"
    /\ active
    /\ \E num \in NumbersRead(Self), chr \in CharactersRead(Self),
          checks \in OverflowChecks(Self) :
            LET done == step_and_render(Self, num, chr, checks)
            IN  Becomes(done) /\ written' = Noted(Self, done)
    /\ steps' = IF steps < MaxSteps THEN steps + 1 ELSE steps
    /\ last' = [stepped |-> TRUE, before |-> Self, written |-> written]
    /\ UNCHANGED << call, twin >>

RunReturn ==
    /\ call.op = "run" /\ ~call.returned
    /\ fault = "none"
    /\ ~active
    /\ call' = [call EXCEPT !.returned = TRUE]
    /\ UNCHANGED << pc_x, pc_y, pc_delta, string_mode, field, stack, active,
                    fault, output, input, steps, last, written, twin >>

NextRun == RunStep \/ RunReturn

SpecRun == InitRun /\ [][NextRun]_vars /\ WF_vars(NextRun)

\* run_with_renderer(renderer): the caller's renderer is shown the field,
\* then the stack and the pointer before each turn of the loop, and the
\* turn itself is self.step(), which builds a PrintlnRenderer of its own
\* and hands that one to step_and_render. call.renderer holds what the
\* caller's renderer was shown, what it was given to write and what it
\* was asked to read; output and input are, as in every step(), what
\* step_and_render's renderer wrote and read.
RunningWithRenderer(f) ==
    [op |-> "run_with_renderer", returned |-> FALSE,
     renderer |-> [shown |-> << << "field", f.cells >> >>,
                   output |-> << >>, input |-> << >>]]

InitRunWithRenderer ==
    \E p \in LinePrograms :
        /\ Starts(New(FromStr(p[1], p[2], p[3])))
        /\ call = RunningWithRenderer(FromStr(p[1], p[2], p[3]))

RunWithRendererStep ==
    /\ call.op = "run_with_renderer" /\ ~call.returned
    /\ fault = "none"
    /\ active
    /\ call' = [call EXCEPT !.renderer.shown =
                    @ \o << << "stack", stack >>,
                            << "pointer", << pc_x, pc_y >> >> >>]
    /\ \E num \in NumbersRead(Self), chr \in CharactersRead(Self),
          checks \in OverflowChecks(Self) :
            LET done == step_and_render(Self, num, chr, checks)
            IN  Becomes(done) /\ written' = Noted(Self, done)
    /\ steps' = IF steps < MaxSteps THEN steps + 1 ELSE steps
    /\ last' = [stepped |-> TRUE, before |-> Self, written |-> written]
    /\ UNCHANGED twin

RunWithRendererReturn ==
    /\ call.op = "run_with_renderer" /\ ~call.returned
    /\ fault = "none"
    /\ ~active
    /\ call' = [call EXCEPT !.returned = TRUE]
    /\ UNCHANGED << pc_x, pc_y, pc_delta, string_mode, field, stack, active,
                    fault, output, input, steps, last, written, twin >>

NextRunWithRenderer == RunWithRendererStep \/ RunWithRendererReturn

SpecRunWithRenderer == InitRunWithRenderer /\ [][NextRunWithRenderer]_vars

\* Two executions of one build started from the same field. Each has a
\* renderer of its own, which returns what it likes at every step; the
\* pair is followed for as long as both were fed the same input values.
TwinNumbers == {-1, 4}

TwinCharacters == {48, 97}

InitTwin ==
    /\ \E p \in ShortPrograms \cup OperandPrograms :
          Starts(New(FromStr(p[1], p[2], p[3])))
    /\ call = Stepping

TwinStep ==
    /\ fault = "none" /\ twin.fault = "none"
    /\ input = twin.input
    /\ steps < MaxSteps
    /\ \E checks \in OverflowChecks(Self) :
          /\ \E num \in TwinNumbers, chr \in TwinCharacters :
                LET done == step_and_render(Self, num, chr, checks)
                IN  Becomes(done) /\ written' = Noted(Self, done)
          /\ \E num \in TwinNumbers, chr \in TwinCharacters :
                twin' = step_and_render(twin, num, chr, checks)
    /\ steps' = steps + 1
    /\ last' = [stepped |-> TRUE, before |-> Self, written |-> written]
    /\ UNCHANGED call

SpecTwin == InitTwin /\ [][TwinStep]_vars

\* The field on its own: built with new or from_str, then one set call
\* with coordinates inside or outside the grid
MaxSourceLen == 3

FieldChars == {97, 98, 233, NEWLINE}

\* The texts of test_string_field and test_truncate
TestSources ==
    {<< 48, NEWLINE, 49, NEWLINE >>,
     << 48, 49, 50, NEWLINE, 48, 49, NEWLINE, 48, 49 >>}

FieldSources ==
    UNION {[1..n -> FieldChars] : n \in 0..MaxSourceLen} \cup TestSources

FieldSides == 0..2

SetCoordinates == 0..2

SetValues == {0, 98}

InitField ==
    \E w \in FieldSides, h \in FieldSides :
        \/ /\ Starts(New(FieldNew(w, h)))
           /\ call = [op |-> "new", width |-> w, height |-> h]
        \/ \E src \in FieldSources :
              /\ Starts(New(FromStr(src, w, h)))
              /\ call = [op |-> "from_str", input |-> src,
                         width |-> w, height |-> h]

SetCell ==
    /\ call.op \in {"new", "from_str"}
    /\ \E x \in SetCoordinates, y \in SetCoordinates, value \in SetValues :
          /\ field' = FieldSet(field, x, y, value)
          /\ call' = [op |-> "set", x |-> x, y |-> y, value |-> value,
                      before |-> field]
    /\ UNCHANGED << pc_x, pc_y, pc_delta, string_mode, stack, active, fault,
                    output, input, steps, last, written, twin >>

SpecField == InitField /\ [][SetCell]_vars

\* The same engine started on any field, those without cells included
InitAnyField ==
    /\ \E p \in Programs \cup EmptyFieldPrograms :
          Starts(New(FromStr(p[1], p[2], p[3])))
    /\ call = Stepping

SpecAnyField == InitAnyField /\ [][Next]_vars

\* ------------------------------------------------------------------------
\* The latest step, as the properties below read it
\* ------------------------------------------------------------------------
Before == last.before

\* The cell the latest step read under the pointer
CellBefore == FieldGet(Before.field, Before.pc_x, Before.pc_y).value

\* The latest step dispatched a cell of exactly this value as an opcode
Ran(op) == last.stepped /\ Dispatches(Before) /\ CellBefore = op

\* The first and second value the latest step popped, and what lay below
TopBefore == PopValue(Before.stack)
SecondBefore == PopValue(PopRest(Before.stack))
BelowTwo == PopRest(PopRest(Before.stack))

\* One wrapped move from (x, y) in direction d on a width x height grid
MovedX(x, d, width) ==
    IF d = "Right" THEN (IF x = width - 1 THEN 0 ELSE x + 1)
    ELSE IF d = "Left" THEN (IF x = 0 THEN width - 1 ELSE x - 1)
    ELSE x

MovedY(y, d, height) ==
    IF d = "Down" THEN (IF y = height - 1 THEN 0 ELSE y + 1)
    ELSE IF d = "Up" THEN (IF y = 0 THEN height - 1 ELSE y - 1)
    ELSE y

\* ------------------------------------------------------------------------
\* Properties
\* ------------------------------------------------------------------------

\* C1: on a field of width >= 1 and height >= 1, after any number of steps
\* from (0,0,Right) the pointer is inside the grid:
\* 0 <= pc_x < width and 0 <= pc_y < height.
C1_PointerInBounds ==
    (field.width >= 1 /\ field.height >= 1) =>
        /\ 0 <= pc_x /\ pc_x < field.width
        /\ 0 <= pc_y /\ pc_y < field.height

\* A step has wrapped the pointer from the last column back to column 0 of a
\* field wider than one cell
C1_Witness ==
    /\ last.stepped /\ fault = "none"
    /\ field.width > 1
    /\ Before.pc_x = field.width - 1 /\ pc_delta = "Right" /\ pc_x = 0

\* C2: once `@` has executed outside string mode the engine is halted for
\* good: that step leaves active false, and a step made on a halted engine
\* leaves it halted and changes nothing (pointer, direction, stack,
\* string_mode, field), emits no output and reads no input.
C2_HaltedIsTerminal ==
    /\ Ran(STOP) => ~active
    /\ (last.stepped /\ ~Before.active) =>
          /\ ~active
          /\ pc_x = Before.pc_x /\ pc_y = Before.pc_y
          /\ pc_delta = Before.pc_delta
          /\ stack = Before.stack
          /\ string_mode = Before.string_mode
          /\ field = Before.field
          /\ output = Before.output
          /\ input = Before.input
          /\ fault = "none"

\* A step was made on an engine that `@` had halted, after earlier steps
\* had filled the stack
C2_Witness ==
    /\ last.stepped /\ ~Before.active /\ ~active
    /\ CellBefore = STOP
    /\ stack # << >>
    /\ steps >= 3

\* The opcodes that pop, with the number of values each pops
Pops ==
    (NEGATE :> 1) @@ (DISCARD :> 1) @@ (MODULO :> 2) @@ (MULTIPLY :> 2) @@
    (ADD :> 2) @@ (WRITE_CHAR :> 1) @@ (SUBTRACT :> 2) @@ (WRITE_INT :> 1) @@
    (DIVIDE :> 2) @@ (DUPLICATE :> 1) @@ (SWAP :> 2) @@ (IF_LEFT_RIGHT :> 1) @@
    (COMPARE :> 2) @@ (READ_CELL :> 2) @@ (WRITE_CELL :> 3) @@ (IF_UP_DOWN :> 1)

Zeros(n) == [i \in 1..n |-> 0]

\* C3: a pop from an empty stack yields zero and does not fail: a popping
\* opcode other than `$` run on a stack shorter than what it pops fails
\* exactly when it fails on that stack with zeros added at the bottom, and
\* otherwise leaves the same stack, direction and field; run on an empty
\* stack only `/` and `%` fail (their divisor is the zero); `:` on an empty
\* stack leaves two zeros; `$` on an empty stack leaves the stack empty.
C3_UnderflowYieldsZero ==
    /\ \A op \in (DOMAIN Pops) \ {DISCARD} :
          (Ran(op) /\ Len(Before.stack) < Pops[op]) =>
              /\ \A checks \in BOOLEAN :
                    LET padded == [Before EXCEPT !.stack =
                                      Zeros(Pops[op] - Len(@)) \o @]
                        r == step_and_render(padded, 0, 0, checks)
                    IN  /\ fault = r.fault
                        /\ fault = "none" =>
                              /\ stack = r.stack
                              /\ pc_delta = r.pc_delta
                              /\ field = r.field
              /\ (Before.stack = << >> /\ op \notin {MODULO, DIVIDE}) =>
                    fault = "none"
    /\ (Ran(DUPLICATE) /\ Before.stack = << >>) => stack = << 0, 0 >>
    /\ (Ran(DISCARD) /\ Before.stack = << >>) =>
          (stack = << >> /\ fault = "none")

\* `p`, which pops three values, ran on a stack holding one and wrote a
\* zero into the field
C3_Witness ==
    /\ Ran(WRITE_CELL) /\ Len(Before.stack) = 1
    /\ fault = "none" /\ stack = << >>
    /\ field # Before.field

BinaryPops == {MODULO, MULTIPLY, ADD, SUBTRACT, DIVIDE, SWAP, COMPARE}

\* C4 as claimed: every binary-pop opcode run on fewer than two values
\* completes the step without failing and the engine stays running.
C4_BinaryUnderflowCompletes ==
    \A op \in BinaryPops :
        (Ran(op) /\ Len(Before.stack) < 2) => (fault = "none" /\ active)

\* C4, amended: a binary-pop opcode run on fewer than two values uses zero
\* for each missing operand; `*`, `+`, `-`, `\` and ` then complete the step
\* and the engine stays running, while `%` and `/`, whose divisor is then
\* zero, fail without pushing a value.
C4_BinaryUnderflowUsesZero ==
    \A op \in BinaryPops :
        (Ran(op) /\ Len(Before.stack) < 2) =>
            IF op \in {MODULO, DIVIDE}
            THEN fault # "none" /\ stack = << >>
            ELSE /\ fault = "none" /\ active
                 /\ stack =
                      CASE op = ADD -> << TopBefore >>
                        [] op = SUBTRACT -> << TopBefore >>
                        [] op = MULTIPLY -> << 0 >>
                        [] op = SWAP -> << TopBefore, 0 >>
                        [] op = COMPARE ->
                              << IF TopBefore > 0 THEN 1 ELSE 0 >>

\* `-` ran on a stack holding only 4 and left 4 - 0
C4_Witness ==
    /\ Ran(SUBTRACT) /\ Before.stack = << 4 >>
    /\ stack = << 4 >> /\ active /\ fault = "none"

\* C5 as claimed: only a `p` cell dispatched outside string mode changes a
\* field cell, and no step changes the field's width or height.
C5_FieldChangedOnlyByWriteCell ==
    last.stepped =>
        /\ field.width = Before.field.width
        /\ field.height = Before.field.height
        /\ field.cells # Before.field.cells => Ran(WRITE_CELL)

DirectionOps == {LEFT, RIGHT, UP, DOWN, IF_LEFT_RIGHT, IF_UP_DOWN}

\* C6: the move at the end of a step wraps on its own axis: Right from the
\* last column gives column 0 (else x+1), Left from column 0 the last column
\* (else x-1), Down from the last row row 0 (else y+1), Up from row 0 the last
\* row (else y-1); the other coordinate is unchanged, and so is the direction
\* whenever the cell is not one that sets it.  (`#`, which moves twice, `@`
\* and a failed step, which do not move, are left to their own properties.)
C6_MoveWraps ==
    (last.stepped /\ Before.active /\ active /\ fault = "none") =>
        /\ ~(Dispatches(Before) /\ OpAt(Before) = BRIDGE) =>
              /\ pc_x = MovedX(Before.pc_x, pc_delta, field.width)
              /\ pc_y = MovedY(Before.pc_y, pc_delta, field.height)
        /\ ~(Dispatches(Before) /\ OpAt(Before) \in DirectionOps) =>
              pc_delta = Before.pc_delta

\* A step moved Up from row 0 to the last row of a field two rows high
C6_Witness ==
    /\ last.stepped /\ fault = "none"
    /\ field.height = 2
    /\ pc_delta = "Up" /\ Before.pc_y = 0 /\ pc_y = 1
    /\ pc_x = Before.pc_x

\* C7: `"` outside string mode sets string_mode and pushes nothing; in string
\* mode every other cell is pushed as its raw value and string_mode stays,
\* and `"` clears string_mode without pushing; outside string mode a digit
\* cell pushes its numeric value again.
C7_StringMode ==
    /\ Ran(TOGGLE_STRING_MODE) => (string_mode /\ stack = Before.stack)
    /\ (last.stepped /\ Before.active /\ Before.string_mode) =>
          IF CellBefore = TOGGLE_STRING_MODE
          THEN ~string_mode /\ stack = Before.stack
          ELSE string_mode /\ stack = Append(Before.stack, CellBefore)
    /\ \A d \in DIGIT_0..DIGIT_9 :
          Ran(d) => (~string_mode /\ stack = Append(Before.stack, d - DIGIT_0))

\* `"0` on a field two cells wide: the string was opened, `0` pushed as 48,
\* the string closed, and `0` then pushed as 0
C7_Witness ==
    /\ stack = << DIGIT_0, 0 >>
    /\ ~string_mode
    /\ Ran(DIGIT_0)

Arithmetic == {ADD, SUBTRACT, MULTIPLY, DIVIDE, MODULO, COMPARE}

\* C8: each of + - * / % ` pops top, then second, and pushes the one value
\* top OP second (` pushes 1 if top > second, else 0): whenever the step
\* completes and top OP second is an i32, the stack is what lay below the
\* two with that value on top.  After 1 then 2, `-` leaves 1, `/` 2 and
\* ` 1; after 2 then 3, `%` leaves 1.
C8_TopOpSecond ==
    /\ \A op \in Arithmetic :
          (Ran(op) /\ fault = "none") =>
              /\ Len(stack) = Len(BelowTwo) + 1
              /\ SubSeq(stack, 1, Len(stack) - 1) = BelowTwo
              /\ LET t == TopBefore
                     s == SecondBefore
                     v == stack[Len(stack)]
                 IN  CASE op = ADD -> AddOverflows(t, s) \/ v = t + s
                       [] op = SUBTRACT -> SubOverflows(t, s) \/ v = t - s
                       [] op = MULTIPLY -> MulOverflows(t, s) \/ v = t * s
                       [] op = DIVIDE ->
                             \/ s = I32_MIN
                             \/ LET r == t - v * s
                                IN  /\ Abs(r) < Abs(s)
                                    /\ r = 0 \/ (r < 0) = (t < 0)
                       [] op = MODULO ->
                             \/ s = I32_MIN
                             \/ /\ Abs(v) < Abs(s)
                                /\ v = 0 \/ (v < 0) = (t < 0)
                                /\ (t - v) % Abs(s) = 0
                       [] op = COMPARE -> v = IF t > s THEN 1 ELSE 0
    /\ (Ran(SUBTRACT) /\ Before.stack = << 1, 2 >>) => stack = << 1 >>
    /\ (Ran(DIVIDE) /\ Before.stack = << 1, 2 >>) => stack = << 2 >>
    /\ (Ran(COMPARE) /\ Before.stack = << 1, 2 >>) => stack = << 1 >>
    /\ (Ran(MODULO) /\ Before.stack = << 2, 3 >>) => stack = << 1 >>

\* `/` ran after 1 then 2 were pushed and left 2
C8_Witness ==
    /\ Ran(DIVIDE) /\ Before.stack = << 1, 2 >>
    /\ stack = << 2 >> /\ fault = "none"

\* C9: `/` or `%` whose second popped value is zero is fatal: the step
\* fails, pushes nothing and does not move the pointer, and no step follows
\* a failed one.
C9_ZeroDivisorIsFatal ==
    /\ \A op \in {DIVIDE, MODULO} :
          (Ran(op) /\ SecondBefore = 0) =>
              /\ fault # "none"
              /\ stack = BelowTwo
              /\ pc_x = Before.pc_x /\ pc_y = Before.pc_y
    /\ fault # "none" => (last.stepped /\ Before.fault = "none")

\* `%` popped 4 and then a zero that had been pushed, not defaulted
C9_Witness ==
    /\ Ran(MODULO) /\ Before.stack = << 0, 4 >>
    /\ fault # "none" /\ stack = << >>

\* C10 as claimed: `!` pops a and pushes 1 if a = 0 and 0 for every other
\* value, negative ones included; on an empty stack it pushes 1.
C10_NegateOnlyZero ==
    Ran(NEGATE) =>
        stack = Append(PopRest(Before.stack), IF TopBefore = 0 THEN 1 ELSE 0)

\* C11: when `?` is executed outside string mode, each of the four
\* directions Right, Left, Down and Up is a possible direction after the
\* step: for every direction some outcome of the step leaves the pointer
\* heading that way
C11_RandomReachesEveryDirection ==
    (fault = "none" /\ steps < MaxSteps /\ Dispatches(Self)
        /\ FieldGet(field, pc_x, pc_y).value = RANDOM)
        => \A d \in Delta : ENABLED (Step /\ pc_delta' = d)

\* The cell values the opcode table lists: the opcodes and the digits
Listed == Opcodes \cup (DIGIT_0..DIGIT_9)

\* C12: outside string mode a cell whose value is neither a listed opcode
\* nor a digit, values above 255 and negative values included, is never
\* executed as an opcode: the step pushes exactly that cell value and
\* changes nothing else but the pointer position.
C12_UnlistedCellIsPushedRaw ==
    (last.stepped /\ Dispatches(Before) /\ CellBefore \notin Listed) =>
        /\ fault = "none"
        /\ stack = Append(Before.stack, CellBefore)
        /\ pc_delta = Before.pc_delta
        /\ string_mode = Before.string_mode
        /\ field = Before.field
        /\ active = Before.active
        /\ output = Before.output
        /\ input = Before.input
        /\ pc_x = MovedX(Before.pc_x, pc_delta, field.width)
        /\ pc_y = MovedY(Before.pc_y, pc_delta, field.height)

\* C13: an out-of-bounds access by `g` or `p` is silently ignored for every
\* popped coordinate pair, negative values included: `g` pushes nothing,
\* `p` leaves the field unchanged, neither faults and the engine stays
\* running.
C13_OutOfBoundsAccessIsIgnored ==
    /\ (Ran(READ_CELL) /\ ~Inside(Before.field, SecondBefore, TopBefore)) =>
          /\ fault = "none" /\ active
          /\ stack = BelowTwo
          /\ field = Before.field
    /\ (Ran(WRITE_CELL) /\ ~Inside(Before.field, SecondBefore, TopBefore)) =>
          /\ fault = "none" /\ active
          /\ stack = PopRest(BelowTwo)
          /\ field = Before.field

\* C14: `#` outside string mode skips exactly one cell: after the step the
\* pointer is two wrapped moves ahead in the unchanged direction, and the
\* skipped cell was not dispatched: stack, direction, string_mode and field
\* are as before, nothing is read or written and the engine is running.
C14_BridgeSkipsOneCell ==
    Ran(BRIDGE) =>
        /\ fault = "none" /\ active
        /\ pc_x = MovedX(MovedX(Before.pc_x, Before.pc_delta, field.width),
                         Before.pc_delta, field.width)
        /\ pc_y = MovedY(MovedY(Before.pc_y, Before.pc_delta, field.height),
                         Before.pc_delta, field.height)
        /\ stack = Before.stack
        /\ pc_delta = Before.pc_delta
        /\ string_mode = Before.string_mode
        /\ field = Before.field
        /\ output = Before.output
        /\ input = Before.input

\* `#` at column 0 of a three-column row jumped over a `@` to column 2, and
\* the engine is still running
C14_Witness ==
    /\ Ran(BRIDGE) /\ fault = "none" /\ active
    /\ field.width = 3
    /\ Before.pc_x = 0 /\ pc_delta = "Right" /\ pc_x = 2
    /\ FieldGet(field, 1, 0).value = STOP

\* C15: `@` outside string mode sets active to false and does not advance
\* the pointer: after the halting step the pointer is still on the `@`
\* cell, and stack and direction are unchanged.
C15_StopStaysOnCell ==
    Ran(STOP) =>
        /\ fault = "none" /\ ~active
        /\ pc_x = Before.pc_x /\ pc_y = Before.pc_y
        /\ FieldGet(field, pc_x, pc_y).value = STOP
        /\ stack = Before.stack
        /\ pc_delta = Before.pc_delta
        /\ string_mode = Before.string_mode
        /\ field = Before.field

\* `@` halted the engine away from the origin, on a field where a move
\* would have changed the position, with values on the stack
C15_Witness ==
    /\ Ran(STOP) /\ ~active
    /\ field.width > 1 /\ pc_x > 0 /\ pc_x = Before.pc_x
    /\ stack # << >>

\* The latest step found no cell under the pointer of a running engine
AbsentRead ==
    /\ last.stepped /\ Before.active
    /\ ~FieldGet(Before.field, Before.pc_x, Before.pc_y).some

\* C16 as stated: an absent read at the pointer, as in a field with zero
\* width or zero height, is a no-op that does not fault and still advances
\* the pointer by one wrapped move.
C16_AbsentReadAdvances ==
    AbsentRead =>
        /\ fault = "none"
        /\ stack = Before.stack /\ field = Before.field
        /\ pc_x = MovedX(Before.pc_x, pc_delta, field.width)
        /\ pc_y = MovedY(Before.pc_y, pc_delta, field.height)

\* C16, amended: an absent read at the pointer, as in a field with zero
\* width or zero height, is a complete no-op: the step does not fault and
\* changes nothing, the pointer position included; the engine stays
\* running.
C16_AbsentReadChangesNothing ==
    AbsentRead =>
        /\ fault = "none" /\ active
        /\ pc_x = Before.pc_x /\ pc_y = Before.pc_y
        /\ pc_delta = Before.pc_delta
        /\ stack = Before.stack
        /\ string_mode = Before.string_mode
        /\ field = Before.field
        /\ output = Before.output
        /\ input = Before.input

\* Two steps were made on a field two columns wide and no rows high, where
\* an advance would have moved the pointer to column 1
C16_Witness ==
    /\ AbsentRead /\ fault = "none"
    /\ field.width = 2 /\ field.height = 0
    /\ steps >= 2 /\ pc_x = 0 /\ pc_y = 0

\* C17: a digit cell `0`..`9` outside string mode pushes its numeric value
\* 0..9 and pops nothing, and changes nothing else; a row of digits
\* executed from its first cell leaves their values on the stack in
\* execution order, bottom to top.
C17_DigitPushesItsValue ==
    /\ \A d \in DIGIT_0..DIGIT_9 :
          Ran(d) =>
              /\ fault = "none" /\ active
              /\ stack = Append(Before.stack, d - DIGIT_0)
              /\ stack[Len(stack)] \in 0..9
              /\ pc_delta = Before.pc_delta
              /\ string_mode = Before.string_mode
              /\ field = Before.field
              /\ output = Before.output
              /\ input = Before.input
    /\ (/\ field.height = 1 /\ field.width >= 1
        /\ \A i \in DOMAIN field.cells : field.cells[i] \in DIGIT_0..DIGIT_9)
          => stack = [i \in 1..steps |->
                        field.cells[((i - 1) % field.width) + 1] - DIGIT_0]

\* Five steps along the row `0123456789` left 0, 1, 2, 3, 4 on the stack
C17_Witness ==
    /\ Ran(52)
    /\ field.width = 10
    /\ stack = << 0, 1, 2, 3, 4 >>

\* C18: `_` pops a and sets the direction Left if a > 0, otherwise Right;
\* `|` pops a and sets the direction Up if a > 0, otherwise Down; zero,
\* negative values and the empty stack (a = 0) select Right and Down; the
\* pointer then moves one wrapped cell in the new direction within the
\* same step.
C18_Conditionals ==
    /\ Ran(IF_LEFT_RIGHT) =>
          /\ fault = "none" /\ active
          /\ stack = PopRest(Before.stack)
          /\ pc_delta = IF TopBefore > 0 THEN "Left" ELSE "Right"
    /\ Ran(IF_UP_DOWN) =>
          /\ fault = "none" /\ active
          /\ stack = PopRest(Before.stack)
          /\ pc_delta = IF TopBefore > 0 THEN "Up" ELSE "Down"
    /\ (Ran(IF_LEFT_RIGHT) \/ Ran(IF_UP_DOWN)) =>
          /\ Before.stack = << >> => pc_delta \in {"Right", "Down"}
          /\ pc_x = MovedX(Before.pc_x, pc_delta, field.width)
          /\ pc_y = MovedY(Before.pc_y, pc_delta, field.height)
          /\ field = Before.field
          /\ string_mode = Before.string_mode

\* `|` popped -1 on the top row of a two-row field, turned Down and moved
\* to the bottom row in the same step
C18_Witness ==
    /\ Ran(IF_UP_DOWN)
    /\ Before.stack = << -1 >> /\ stack = << >>
    /\ Before.pc_delta = "Right" /\ pc_delta = "Down"
    /\ field.height = 2 /\ Before.pc_y = 0 /\ pc_y = 1
    /\ pc_x = Before.pc_x

\* The depth of the stack the latest step started on
DepthBefore == Len(Before.stack)

\* The values the latest step left below position n are those it found
SameBelow(n) == \A i \in 1..(n - 1) : stack[i] = Before.stack[i]

\* C19: `\` exchanges the top two values, `:` leaves two copies of the
\* former top and `$` removes exactly the top value; on a stack of depth
\* two or more none of them changes the values below.
C19_StackShuffles ==
    /\ (Ran(SWAP) /\ DepthBefore >= 2) =>
          /\ fault = "none"
          /\ Len(stack) = DepthBefore
          /\ stack[DepthBefore] = Before.stack[DepthBefore - 1]
          /\ stack[DepthBefore - 1] = Before.stack[DepthBefore]
          /\ SameBelow(DepthBefore - 1)
    /\ (Ran(DUPLICATE) /\ DepthBefore >= 1) =>
          /\ fault = "none"
          /\ Len(stack) = DepthBefore + 1
          /\ stack[DepthBefore + 1] = Before.stack[DepthBefore]
          /\ stack[DepthBefore] = Before.stack[DepthBefore]
          /\ SameBelow(DepthBefore)
    /\ (Ran(DISCARD) /\ DepthBefore >= 1) =>
          /\ fault = "none"
          /\ Len(stack) = DepthBefore - 1
          /\ SameBelow(DepthBefore)

\* `\` ran on three values, the top two of them different, and the bottom
\* one different from both
C19_Witness ==
    /\ Ran(SWAP) /\ DepthBefore = 3
    /\ Before.stack[3] # Before.stack[2]
    /\ Before.stack[1] \notin {Before.stack[2], Before.stack[3]}
    /\ stack[3] = Before.stack[2]

\* The index of the cell the latest step read under the pointer
PointerIndexBefore == IndexOf(Before.field, Before.pc_x, Before.pc_y)

\* C20: self-modification round trip: after `p` writes v at an in-bounds
\* (col, row), Field.get(col, row) returns v, a later `g` with the same
\* coordinates pushes v, and a later step with the pointer on (col, row)
\* reads v and dispatches on it, until another `p` overwrites that cell;
\* with an empty stack `p` writes 0 at (0,0).
C20_WrittenCellReadsBack ==
    /\ \A x \in 0..(field.width - 1), y \in 0..(field.height - 1) :
          IndexOf(field, x, y) \in DOMAIN written =>
              FieldGet(field, x, y) =
                  [some |-> TRUE, value |-> written[IndexOf(field, x, y)]]
    /\ (/\ Ran(READ_CELL) /\ fault = "none"
        /\ Inside(field, SecondBefore, TopBefore)
        /\ IndexOf(field, SecondBefore, TopBefore) \in DOMAIN written)
          => stack = Append(BelowTwo,
                            written[IndexOf(field, SecondBefore, TopBefore)])
    /\ (/\ last.stepped /\ Dispatches(Before)
        /\ PointerIndexBefore \in DOMAIN last.written)
          => /\ CellBefore = last.written[PointerIndexBefore]
             /\ OpAt(Before) = AsU8(last.written[PointerIndexBefore])
    /\ (Ran(WRITE_CELL) /\ Before.stack = << >>) =>
          /\ fault = "none"
          /\ FieldGet(field, 0, 0) = [some |-> TRUE, value |-> 0]
          /\ stack = << >>

\* `p` wrote a value other than the cell's old one at (4,0), and a later
\* `g` given the same coordinates pushed that value
C20_Witness ==
    /\ Ran(READ_CELL) /\ fault = "none"
    /\ SecondBefore = 4 /\ TopBefore = 0
    /\ IndexOf(field, 4, 0) \in DOMAIN written
    /\ written[IndexOf(field, 4, 0)] # READ_INT
    /\ stack = << written[IndexOf(field, 4, 0)] >>

\* The coordinates a reader of the field may ask for, some beyond any grid
Probes == 0..3

\* What get answers when the cell exists and holds v, and when it does not
Present(v) == [some |-> TRUE, value |-> v]
Absent == [some |-> FALSE, value |-> 0]

\* C21: Field.new(w,h).get(x,y) is the space value for every x < w and
\* y < h and absent for every other coordinate; set(x,y,v) in bounds
\* changes exactly the cell (x,y), so that get(x,y) returns v and every
\* other cell is unchanged; set out of bounds changes no cell and is not
\* an error.
C21_NewGetSet ==
    /\ call.op = "new" =>
          \A x \in Probes, y \in Probes :
              FieldGet(field, x, y) =
                  IF x < call.width /\ y < call.height
                  THEN Present(NO_OP) ELSE Absent
    /\ call.op = "set" =>
          /\ fault = "none"
          /\ field.width = call.before.width
          /\ field.height = call.before.height
          /\ \A x \in Probes, y \in Probes :
                FieldGet(field, x, y) =
                    IF /\ x = call.x /\ y = call.y
                       /\ Inside(call.before, call.x, call.y)
                    THEN Present(call.value)
                    ELSE FieldGet(call.before, x, y)

\* set wrote 98 over a different value in the last cell of a 2x2 grid
C21_Witness ==
    /\ call.op = "set"
    /\ field.width = 2 /\ field.height = 2
    /\ call.x = 1 /\ call.y = 1 /\ call.value = 98
    /\ FieldGet(call.before, 1, 1) # Present(98)
    /\ FieldGet(field, 1, 1) = Present(98)

\* The line (counted from 0) and the place in its line (counted from 0) of
\* the i-th character of a source text
RowOf(src, i) == Cardinality({j \in 1..(i - 1) : src[j] = NEWLINE})

ColOf(src, i) ==
    LET breaks == {j \in 1..(i - 1) : src[j] = NEWLINE}
    IN  IF breaks = {} THEN i - 1
        ELSE i - 1 - (CHOOSE j \in breaks : \A k \in breaks : k <= j)

\* The places in the source of character x of line y: one or none
PlacesOf(src, x, y) ==
    {i \in 1..Len(src) :
        src[i] # NEWLINE /\ RowOf(src, i) = y /\ ColOf(src, i) = x}

\* Line y has, at or before character x, one that takes more than one byte
\* of UTF-8
PastWideChar(src, x, y) ==
    \E i \in 1..Len(src) :
        /\ src[i] # NEWLINE /\ RowOf(src, i) = y /\ ColOf(src, i) <= x
        /\ src[i] >= 128

\* C22 as stated: from_str(source,w,h) loads row y from source line y and
\* column x from character x: cell (x,y) equals the x-th character of line
\* y when both exist, every other in-bounds cell is space, and lines beyond
\* h and characters beyond w are dropped without error.
C22_FromStrCopiesEveryCharacter ==
    call.op = "from_str" =>
        /\ fault = "none"
        /\ field.width = call.width /\ field.height = call.height
        /\ Len(field.cells) = call.width * call.height
        /\ \A x \in 0..(call.width - 1), y \in 0..(call.height - 1) :
              FieldGet(field, x, y) =
                  IF PlacesOf(call.input, x, y) # {}
                  THEN Present(call.input[CHOOSE i \in
                                   PlacesOf(call.input, x, y) : TRUE])
                  ELSE Present(NO_OP)

\* C22, amended: cell (x,y) equals the x-th character of line y when both
\* exist and no character of that line at or before x takes more than one
\* byte of UTF-8; every other in-bounds cell is space; lines beyond h and
\* characters beyond w are dropped without error.
C22_FromStrCopiesUpToWideChar ==
    call.op = "from_str" =>
        /\ fault = "none"
        /\ field.width = call.width /\ field.height = call.height
        /\ Len(field.cells) = call.width * call.height
        /\ \A x \in 0..(call.width - 1), y \in 0..(call.height - 1) :
              FieldGet(field, x, y) =
                  IF /\ PlacesOf(call.input, x, y) # {}
                     /\ ~PastWideChar(call.input, x, y)
                  THEN Present(call.input[CHOOSE i \in
                                   PlacesOf(call.input, x, y) : TRUE])
                  ELSE Present(NO_OP)

\* A 2x2 grid loaded from a first line that starts with a two-byte
\* character and a second line of one character
C22_Witness ==
    /\ call.op = "from_str"
    /\ call.input = << 233, NEWLINE, 98 >>
    /\ call.width = 2 /\ call.height = 2
    /\ field.cells = << NO_OP, NO_OP, 98, NO_OP >>

\* The latest step ran the arm of this opcode (the low byte of its cell)
RanArm(op) == last.stepped /\ Dispatches(Before) /\ OpAt(Before) = op

\* C23: output keeps the order of the engine's steps: each `,` step and
\* each `.` step adds exactly one emission, the value it popped, at the end
\* of the output so far, and no other step emits anything.
C23_OutputInStepOrder ==
    /\ RanArm(WRITE_CHAR) =>
          output = Append(Before.output, << "character", TopBefore >>)
    /\ RanArm(WRITE_INT) =>
          output = Append(Before.output, << "number", TopBefore >>)
    /\ (last.stepped /\ ~RanArm(WRITE_CHAR) /\ ~RanArm(WRITE_INT)) =>
          output = Before.output
    /\ ~last.stepped => output = << >>

\* The four steps of `12..` wrote 2 and then 1
C23_Witness ==
    /\ RanArm(WRITE_INT)
    /\ Before.stack = << 1 >>
    /\ output = << << "number", 2 >>, << "number", 1 >> >>

\* C24: run terminates exactly when execution reaches a `@` cell outside
\* string mode: whenever run has returned, active is false and the latest
\* step dispatched `@`; a step that dispatches `@` is always followed by
\* the return; so a program whose path never dispatches `@` (an all-space
\* field, or `@` met only inside string mode) never returns.
C24_RunReturnsExactlyOnStop ==
    /\ [](call.returned => (~active /\ RanArm(STOP)))
    /\ (RanArm(STOP) ~> call.returned)

\* run returned on the fourth step of `"@`: the `@` was pushed as a
\* character while string mode was on, and halted the engine the second
\* time round
C24_Witness ==
    /\ call.op = "run" /\ call.returned
    /\ ~active
    /\ stack = << STOP >>
    /\ steps = 4

\* The most values the arm of an opcode pops, and the most it pushes
PopsOf(op) == IF op \in DOMAIN Pops THEN Pops[op] ELSE 0

PushesOf(op) ==
    IF op \in {DUPLICATE, SWAP} THEN 2
    ELSE IF op \in {NO_OP, TOGGLE_STRING_MODE, BRIDGE, DISCARD, WRITE_CHAR,
                    WRITE_INT, LEFT, RIGHT, RANDOM, STOP, UP, IF_LEFT_RIGHT,
                    WRITE_CELL, DOWN, IF_UP_DOWN} THEN 0
    ELSE 1

\* The number of cells in which two fields of the same size differ
CellsChanged(f, g) ==
    Cardinality({i \in DOMAIN f.cells : f.cells[i] # g.cells[i]})

\* C25: a single step dispatches only the cell under the pointer when the
\* step begins and performs at most that opcode's effect plus one pointer
\* move: the stack depth changes by at most the pops and pushes of that one
\* opcode, at most one value is emitted, one read and one cell written, and
\* the pointer ends one wrapped move on (one more for the skip of `#`, none
\* after `@`), so no cell reached by the move is executed in the same step.
C25_OneOpcodePerStep ==
    (last.stepped /\ Before.active) =>
        /\ Len(stack) - Len(Before.stack) \in
              IF Before.string_mode THEN 0..1
              ELSE (0 - PopsOf(OpAt(Before)))..PushesOf(OpAt(Before))
        /\ Len(output) - Len(Before.output) \in 0..1
        /\ Len(input) - Len(Before.input) \in 0..1
        /\ CellsChanged(field, Before.field) <= 1
        /\ fault = "none" =>
              LET onceX == MovedX(Before.pc_x, pc_delta, field.width)
                  onceY == MovedY(Before.pc_y, pc_delta, field.height)
              IN  IF ~active
                  THEN pc_x = Before.pc_x /\ pc_y = Before.pc_y
                  ELSE IF ~Before.string_mode /\ OpAt(Before) = BRIDGE
                  THEN /\ pc_x = MovedX(onceX, pc_delta, field.width)
                       /\ pc_y = MovedY(onceY, pc_delta, field.height)
                  ELSE pc_x = onceX /\ pc_y = onceY

\* The step on the `1` of `19` pushed 1 and stopped on the `9`, which has
\* pushed nothing
C25_Witness ==
    /\ Ran(49) /\ steps = 1
    /\ FieldGet(field, pc_x, pc_y) = Present(DIGIT_9)
    /\ pc_x = 1
    /\ stack = << 1 >>

ReadInStringMode ==
    /\ last.stepped /\ Before.active /\ Before.string_mode
    /\ FieldGet(Before.field, Before.pc_x, Before.pc_y).some

\* C27: while string_mode is true no opcode takes effect: every step
\* leaves direction, active and the field unchanged, never pops, halts,
\* emits output or requests input (even on `@`, `p`, `<`, `,`, `&`), and
\* string_mode stays true, across edge wraps too, until a `"` cell is
\* read.
C27_StringModeFrame ==
    ReadInStringMode =>
        /\ fault = "none" /\ active
        /\ pc_delta = Before.pc_delta
        /\ field = Before.field
        /\ output = Before.output
        /\ input = Before.input
        /\ Len(stack) >= Len(Before.stack)
        /\ SubSeq(stack, 1, Len(Before.stack)) = Before.stack
        /\ string_mode = (CellBefore # TOGGLE_STRING_MODE)
        /\ pc_x = MovedX(Before.pc_x, pc_delta, field.width)
        /\ pc_y = MovedY(Before.pc_y, pc_delta, field.height)

\* In string mode the `@` in the last column was pushed, the engine kept
\* running and the pointer wrapped to column 0 with string mode still on
C27_Witness ==
    /\ ReadInStringMode /\ CellBefore = STOP
    /\ active /\ string_mode
    /\ field.width > 1 /\ Before.pc_x = field.width - 1 /\ pc_x = 0
    /\ stack = << STOP >>

\* C28: when the engine is driven through run_with_renderer, every value
\* emitted by `,` and `.` and every value requested by `&` and `~` goes
\* through the renderer supplied by the caller: what the caller's renderer
\* was given to write and asked to read is all that the steps wrote and
\* read.
C28_CallerRendererCarriesAllIO ==
    call.op = "run_with_renderer" =>
        /\ call.renderer.output = output
        /\ call.renderer.input = input

============================================================================
